---- MODULE Spec2Model ----
(***************************************************************************)
(* buffer-serializer: the BufferWriter, the BufferReader and the           *)
(* BufferSerializer engine (type-tag dispatch, containers, keys, numbers,  *)
(* built-in kinds and the helper registry), as a state machine.            *)
(*                                                                         *)
(* Bytes are integers 0..255, buffers are sequences of bytes, and texts    *)
(* are sequences of UTF-16 code units.  A thrown exception is a result     *)
(* whose ok field is FALSE; every operation passes a failed result on      *)
(* unchanged, which is how the exception leaves the enclosing calls.       *)
(***************************************************************************)
EXTENDS Integers, Sequences, FiniteSets, TLC

VARIABLES
    helpers,     \* BufferSerializer.helpers: the registry, in registration order
    op,          \* the engine call made last
    thing,       \* the value last handed to toBuffer
    enc,         \* what that toBuffer call returned or threw
    buff,        \* the buffer last handed to fromBuffer
    offset,      \* the offset last handed to fromBuffer
    out,         \* what the last engine call returned or threw
    bufferList,  \* BufferWriter.bufferList of a stand-alone writer
    wcall,       \* the last call made on the stand-alone writer
    readBuffer,  \* BufferReader.readBuffer of a stand-alone reader
    readOffset,  \* BufferReader.offset of that reader
    rcall,       \* the last call made on the stand-alone reader
    decode       \* a fromBuffer call followed step by step: its status, the
                 \* offset of its reader (pos), the container decoders it has
                 \* open, outermost first (stack), what it returned or threw

vars ==
    <<helpers, op, thing, enc, buff, offset, out, bufferList, wcall,
      readBuffer, readOffset, rcall, decode>>

engineVars == <<helpers, op, thing, enc, buff, offset, out>>

writerVars == <<bufferList, wcall>>

readerVars == <<readBuffer, readOffset, rcall>>

decodeVars == <<decode>>

(***************************************************************************)
(* Bounds of the model.                                                    *)
(***************************************************************************)
MaxHelpers == 2

MaxSegments == 2

\* the longest prefix of a record that is decoded on its own
MaxRecord == 16

\* how far past the end of its buffer the stand-alone reader is followed
MaxOverrun == 2

(***************************************************************************)
(* JavaScript values.  A number is sign and magnitude, the magnitude being *)
(* hi * 65536 + lo so that 32-bit and wider magnitudes stay representable; *)
(* a number that is not integral, or is wider than 32 bits, carries the 8  *)
(* bytes of its IEEE-754 form in ieee.  A timestamp is sign and magnitude  *)
(* of getTime(): (shi * 65536 + slo) * 1000 + ms milliseconds.  Arrays and *)
(* objects list their own properties in Object.keys() order.               *)
(***************************************************************************)
Null == [t |-> "null"]

Undefined == [t |-> "undefined"]

Function == [t |-> "function"]

Symbol == [t |-> "symbol"]

Bool(b) == [t |-> "boolean", b |-> b]

Str(s) == [t |-> "string", s |-> s]

Num(neg, hi, lo) ==
    [t |-> "number", integral |-> TRUE, neg |-> neg, hi |-> hi, lo |-> lo,
     ieee |-> <<>>]

Dbl(ieee) ==
    [t |-> "number", integral |-> FALSE, neg |-> FALSE, hi |-> 0, lo |-> 0,
     ieee |-> ieee]

\* an integer of 2^32 or more in magnitude, known by its IEEE-754 form
Wide(neg, ieee) ==
    [t |-> "number", integral |-> TRUE, neg |-> neg, hi |-> 65536, lo |-> 0,
     ieee |-> ieee]

Buf(bytes) == [t |-> "buffer", bytes |-> bytes]

Date(neg, shi, slo, ms) ==
    [t |-> "date", neg |-> neg, shi |-> shi, slo |-> slo, ms |-> ms]

RegExp(source, g, i, m, y) ==
    [t |-> "regexp", source |-> source, global |-> g, ignoreCase |-> i,
     multiline |-> m, sticky |-> y]

Arr(len, entries) == [t |-> "array", len |-> len, entries |-> entries]

Obj(cls, entries) == [t |-> "object", cls |-> cls, entries |-> entries]

Prop(k, v) == [k |-> k, v |-> v]

\* typeof thing
TypeOf(v) ==
    IF v.t \in {"string", "number", "boolean", "undefined", "function", "symbol"}
    THEN v.t
    ELSE "object"

(***************************************************************************)
(* Decimal text of a magnitude and back (String(n) and +text on keys).     *)
(***************************************************************************)
RECURSIVE BigDigits(_, _)
BigDigits(hi, lo) ==
    IF hi = 0 /\ lo < 10
    THEN <<48 + lo>>
    ELSE LET t == (hi % 10) * 65536 + lo
         IN  Append(BigDigits(hi \div 10, t \div 10), 48 + (t % 10))

RECURSIVE DigitsToBig(_, _, _, _)
DigitsToBig(s, i, hi, lo) ==
    IF i > Len(s)
    THEN [hi |-> hi, lo |-> lo]
    ELSE LET t == lo * 10 + (s[i] - 48)
         IN  DigitsToBig(s, i + 1, hi * 10 + (t \div 65536), t % 65536)

\* /^(0|[1-9][0-9]*)$/.test(thing)
IsCanonicalInt(s) ==
    /\ Len(s) > 0
    /\ \A i \in 1..Len(s) : s[i] \in 48..57
    /\ (Len(s) = 1 \/ s[1] # 48)

\* the IEEE-754 forms the model knows by value; any other 8 bytes are a
\* number that is not integral
Doubles ==
    { [ieee |-> <<63, 240, 0, 0, 0, 0, 0, 0>>, val |-> Num(FALSE, 0, 1),
       text |-> <<49>>],
      [ieee |-> <<63, 244, 0, 0, 0, 0, 0, 0>>,
       val |-> Dbl(<<63, 244, 0, 0, 0, 0, 0, 0>>), text |-> <<49, 46, 50, 53>>],
      [ieee |-> <<65, 240, 0, 0, 0, 0, 0, 0>>,
       val |-> Wide(FALSE, <<65, 240, 0, 0, 0, 0, 0, 0>>),
       text |-> <<52, 50, 57, 52, 57, 54, 55, 50, 57, 54>>],
      [ieee |-> <<193, 240, 0, 0, 0, 0, 0, 0>>,
       val |-> Wide(TRUE, <<193, 240, 0, 0, 0, 0, 0, 0>>),
       text |-> <<45, 52, 50, 57, 52, 57, 54, 55, 50, 57, 54>>] }

\* +thing, for a text that IsCanonicalInt accepts: an integer of 32 bits,
\* or a wider one that the table of IEEE-754 forms knows
KeyToNumber(s) ==
    IF \E d \in Doubles : d.text = s
    THEN (CHOOSE d \in Doubles : d.text = s).val
    ELSE LET b == DigitsToBig(s, 1, 0, 0) IN Num(FALSE, b.hi, b.lo)

(***************************************************************************)
(* BufferWriter.  A writer is [ok, bl, used, err, detail]: bl is           *)
(* bufferList, used lists the helpers whose toBufferFn ran, err and detail *)
(* describe the exception when ok is FALSE.                                *)
(***************************************************************************)
NewWriter ==
    [ok |-> TRUE, bl |-> <<>>, used |-> <<>>, err |-> "", detail |-> <<>>]

Throw(w, e, d) == [w EXCEPT !.ok = FALSE, !.err = e, !.detail = d]

Push(w, seg) == [w EXCEPT !.bl = Append(@, seg)]

BufferWriter_buffer(w, b) == IF ~w.ok THEN w ELSE Push(w, b)

\* Buffer.alloc(8); buff.writeDoubleBE(val)
BufferWriter_double(w, ieee) == IF ~w.ok THEN w ELSE Push(w, ieee)

\* buff.writeUInt8(val) throws when val is outside 0..255
BufferWriter_uint8(w, val) ==
    IF ~w.ok THEN w
    ELSE IF val \in 0..255 THEN Push(w, <<val>>)
    ELSE Throw(w, "RangeError", <<>>)

BufferWriter_uint16(w, val) ==
    IF ~w.ok THEN w
    ELSE IF val \in 0..65535 THEN Push(w, <<val \div 256, val % 256>>)
    ELSE Throw(w, "RangeError", <<>>)

\* val is [neg, hi, lo]; writeUInt32BE throws outside 0..0xFFFFFFFF
BufferWriter_uint32(w, val) ==
    IF ~w.ok THEN w
    ELSE IF ~val.neg /\ val.hi \in 0..65535
    THEN Push(w, <<val.hi \div 256, val.hi % 256, val.lo \div 256, val.lo % 256>>)
    ELSE Throw(w, "RangeError", <<>>)

BufferWriter_size(w, s) ==
    IF ~w.ok THEN w
    ELSE IF s < 0 THEN Throw(w, "Sizes must be positive", <<>>)
    ELSE IF s < 127 THEN BufferWriter_uint8(w, s)
    ELSE IF s < 16383 THEN BufferWriter_uint16(w, s + 32768)
    ELSE IF s < 536870911
    THEN BufferWriter_uint32(w, [neg |-> FALSE, hi |-> 49152 + (s \div 65536),
                                 lo |-> s % 65536])
    ELSE Throw(w, "Can not encode size; too large", <<>>)

\* Buffer.from(str, "binary"): one byte per code unit, its low 8 bits
BufferWriter_string(w, str) ==
    IF ~w.ok THEN w
    ELSE Push(w, [i \in 1..Len(str) |-> str[i] % 256])

RECURSIVE Concat(_)
Concat(segs) ==
    IF segs = <<>> THEN <<>> ELSE Head(segs) \o Concat(Tail(segs))

\* mutant: only the segment appended last is returned
BufferWriter_toBuffer_last(w) ==
    IF w.bl = <<>> THEN <<>> ELSE w.bl[Len(w.bl)]

\* Buffer.concat(this.bufferList)
BufferWriter_toBuffer(w) == Concat(w.bl)

(***************************************************************************)
(* Property access on arrays and objects.                                  *)
(***************************************************************************)
HasProp(entries, k) == \E i \in 1..Len(entries) : entries[i].k = k

\* thing[k]: the own property, undefined when there is none
GetProp(entries, k) ==
    IF HasProp(entries, k)
    THEN entries[CHOOSE i \in 1..Len(entries) : entries[i].k = k].v
    ELSE Undefined

IndexKey(i) == BigDigits(i \div 65536, i % 65536)

(***************************************************************************)
(* The helpers a caller registers.  Klass is the class of the test suite:  *)
(* its payload is size(getVal()).  Byte holds one byte and writes it with  *)
(* uint8.  Any is a catch-all whose predicate accepts every value, writes  *)
(* the byte 42 and reads it back as null.  None stands for a registration  *)
(* whose three functions are undefined: calling one is a TypeError.        *)
(***************************************************************************)
ValKey == <<118, 97, 108>>

Instance(cls, n) ==
    Obj(cls, <<Prop(ValKey, Num(FALSE, n \div 65536, n % 65536))>>)

HelperKinds == {"Klass", "Byte", "Any", "None"}

\* the helper loop of the encoder goes no further than helper i: its checkFn
\* accepts the value or, for None, is undefined and cannot be called
HelperCheckFn(kind, v) ==
    CASE kind = "Klass" -> v.t = "object" /\ v.cls = "Klass"
      [] kind = "Byte"  -> v.t = "object" /\ v.cls = "Byte"
      [] OTHER          -> TRUE

\* the argument of bufferWriter.size(thing.getVal()) as an integer;
\* whatever size() cannot take is handed over as 2^29
SizeArg(v) ==
    IF v.t = "number" /\ v.integral /\ v.hi < 8192
    THEN (IF v.neg THEN -1 ELSE 1) * (v.hi * 65536 + v.lo)
    ELSE 536870912

ByteArg(v) ==
    IF v.t = "number" /\ v.integral /\ ~v.neg /\ v.hi = 0 THEN v.lo ELSE 256

HelperToBufferFn(kind, v, w) ==
    CASE kind = "Klass" -> BufferWriter_size(w, SizeArg(GetProp(v.entries, ValKey)))
      [] kind = "Byte"  -> BufferWriter_uint8(w, ByteArg(GetProp(v.entries, ValKey)))
      [] OTHER          -> BufferWriter_uint8(w, 42)

(***************************************************************************)
(* BufferSerializer, encode direction.                                     *)
(***************************************************************************)
toBufferInternalBoolean(v, w) ==
    IF v.b THEN BufferWriter_uint8(w, 116) ELSE BufferWriter_uint8(w, 102)

toBufferInternalString(v, w) ==
    BufferWriter_string(
        BufferWriter_size(BufferWriter_uint8(w, 115), Len(v.s)), v.s)

\* Math.abs(thing), as [neg, hi, lo]
Magnitude(v) == [neg |-> FALSE, hi |-> v.hi, lo |-> v.lo]

\* thing < 0, which -0 is not
LessThanZero(v) == v.neg /\ (v.hi > 0 \/ v.lo > 0)

\* mutant: the width tests use < where the code uses <=
toBufferInternalNumber_strict(v, w) ==
    IF v.integral /\ LessThanZero(v) /\ v.hi = 0 /\ v.lo < 255
    THEN BufferWriter_uint8(BufferWriter_uint8(w, 45), v.lo)
    ELSE IF v.integral /\ LessThanZero(v) /\ v.hi = 0 /\ v.lo < 65535
    THEN BufferWriter_uint16(BufferWriter_uint8(w, 105), v.lo)
    ELSE IF v.integral /\ LessThanZero(v) /\ v.hi <= 65535
    THEN BufferWriter_uint32(BufferWriter_uint8(w, 73), Magnitude(v))
    ELSE IF v.integral /\ ~LessThanZero(v) /\ v.hi = 0 /\ v.lo < 255
    THEN BufferWriter_uint8(BufferWriter_uint8(w, 43), v.lo)
    ELSE IF v.integral /\ ~LessThanZero(v) /\ v.hi = 0 /\ v.lo < 65535
    THEN BufferWriter_uint16(BufferWriter_uint8(w, 112), v.lo)
    ELSE IF v.integral /\ ~LessThanZero(v) /\ v.hi <= 65535
    THEN BufferWriter_uint32(BufferWriter_uint8(w, 80), Magnitude(v))
    ELSE BufferWriter_double(BufferWriter_uint8(w, 100), v.ieee)

toBufferInternalNumber(v, w) ==
    IF v.integral /\ LessThanZero(v) /\ v.hi = 0 /\ v.lo <= 255
    THEN BufferWriter_uint8(BufferWriter_uint8(w, 45), v.lo)
    ELSE IF v.integral /\ LessThanZero(v) /\ v.hi = 0
    THEN BufferWriter_uint16(BufferWriter_uint8(w, 105), v.lo)
    ELSE IF v.integral /\ LessThanZero(v) /\ v.hi <= 65535
    THEN BufferWriter_uint32(BufferWriter_uint8(w, 73), Magnitude(v))
    ELSE IF v.integral /\ ~LessThanZero(v) /\ v.hi = 0 /\ v.lo <= 255
    THEN BufferWriter_uint8(BufferWriter_uint8(w, 43), v.lo)
    ELSE IF v.integral /\ ~LessThanZero(v) /\ v.hi = 0
    THEN BufferWriter_uint16(BufferWriter_uint8(w, 112), v.lo)
    ELSE IF v.integral /\ ~LessThanZero(v) /\ v.hi <= 65535
    THEN BufferWriter_uint32(BufferWriter_uint8(w, 80), Magnitude(v))
    ELSE BufferWriter_double(BufferWriter_uint8(w, 100), v.ieee)

toBufferInternalObjectBuffer(v, w) ==
    BufferWriter_buffer(
        BufferWriter_size(BufferWriter_uint8(w, 66), Len(v.bytes)), v.bytes)

\* seconds = Math.floor(getTime() / 1000), as [neg, hi, lo]
DateSeconds(v) ==
    IF ~v.neg \/ v.ms = 0
    THEN [neg |-> v.neg /\ (v.shi > 0 \/ v.slo > 0), hi |-> v.shi, lo |-> v.slo]
    ELSE IF v.slo = 65535
    THEN [neg |-> TRUE, hi |-> v.shi + 1, lo |-> 0]
    ELSE [neg |-> TRUE, hi |-> v.shi, lo |-> v.slo + 1]

\* ms = getTime() % 1000: the remainder takes the sign of getTime()
DateMs(v) == IF v.neg THEN -v.ms ELSE v.ms

toBufferInternalObjectDate(v, w) ==
    IF DateMs(v) # 0
    THEN BufferWriter_uint16(
             BufferWriter_uint32(BufferWriter_uint8(w, 68), DateSeconds(v)),
             DateMs(v))
    ELSE BufferWriter_uint32(BufferWriter_uint8(w, 84), DateSeconds(v))

RegExpFlags(v) ==
    (IF v.global THEN 1 ELSE 0) + (IF v.ignoreCase THEN 2 ELSE 0)
        + (IF v.multiline THEN 4 ELSE 0)

toBufferInternalObjectRegExp(v, w) ==
    BufferWriter_uint8(
        BufferWriter_string(
            BufferWriter_size(BufferWriter_uint8(w, 82), Len(v.source)),
            v.source),
        RegExpFlags(v))

RECURSIVE toBufferInternal(_, _, _)

\* mutant: any run of digits is taken for a number, leading zeros too
toBufferInternalKey_anyDigits(hs, k, w) ==
    IF Len(k) > 0 /\ \A i \in 1..Len(k) : k[i] \in 48..57
    THEN toBufferInternal(hs, KeyToNumber(k), w)
    ELSE toBufferInternal(hs, Str(k), w)

toBufferInternalKey(hs, k, w) ==
    IF IsCanonicalInt(k)
    THEN toBufferInternal(hs, KeyToNumber(k), w)
    ELSE toBufferInternal(hs, Str(k), w)

\* for (i = 0; i < keys.length; i += 1) { key; value }
RECURSIVE WritePairs(_, _, _, _)
WritePairs(hs, entries, i, w) ==
    IF ~w.ok \/ i > Len(entries) THEN w
    ELSE WritePairs(hs, entries, i + 1,
             toBufferInternal(hs, entries[i].v,
                 toBufferInternalKey(hs, entries[i].k, w)))

\* for (i = 0; i < thing.length; i += 1) { thing[i] }
RECURSIVE WriteElements(_, _, _, _)
WriteElements(hs, v, i, w) ==
    IF ~w.ok \/ i >= v.len THEN w
    ELSE WriteElements(hs, v, i + 1,
             toBufferInternal(hs, GetProp(v.entries, IndexKey(i)), w))

\* keys.length == thing.length and no thing[i] === undefined
IsDense(v) ==
    /\ Len(v.entries) = v.len
    /\ \A i \in 0..(v.len - 1) : GetProp(v.entries, IndexKey(i)) # Undefined

toBufferInternalArray(hs, v, w) ==
    IF IsDense(v)
    THEN BufferWriter_string(
             WriteElements(hs, v, 0, BufferWriter_string(w, <<97>>)), <<33>>)
    ELSE BufferWriter_string(
             WritePairs(hs, v.entries, 1, BufferWriter_string(w, <<65>>)), <<33>>)

toBufferInternalObjectGeneric(hs, v, w) ==
    BufferWriter_string(
        WritePairs(hs, v.entries, 1, BufferWriter_string(w, <<79>>)), <<33>>)

\* the indices of the helpers whose checkFn accepts the value
Matching(hs, v) == {i \in 1..Len(hs) : HelperCheckFn(hs[i].kind, v)}

FirstMatching(hs, v) ==
    CHOOSE i \in Matching(hs, v) : \A j \in Matching(hs, v) : i <= j

UseHelper(w, i) == IF ~w.ok THEN w ELSE [w EXCEPT !.used = Append(@, i)]

toBufferInternalObject(hs, v, w) ==
    IF Matching(hs, v) # {}
    THEN LET i == FirstMatching(hs, v)
         IN  IF hs[i].kind = "None"
             THEN Throw(w, "TypeError", <<>>)
             ELSE HelperToBufferFn(hs[i].kind, v,
                      UseHelper(
                          BufferWriter_string(
                              BufferWriter_size(BufferWriter_uint8(w, 90),
                                                Len(hs[i].name)),
                              hs[i].name),
                          i))
    ELSE IF v.t = "buffer" THEN toBufferInternalObjectBuffer(v, w)
    ELSE IF v.t = "date" THEN toBufferInternalObjectDate(v, w)
    ELSE IF v.t = "regexp" THEN toBufferInternalObjectRegExp(v, w)
    ELSE toBufferInternalObjectGeneric(hs, v, w)

\* mutant: a value of no supported type is skipped instead of rejected
toBufferInternal_lenient(hs, v, w) ==
    IF ~w.ok THEN w
    ELSE IF TypeOf(v) = "object"
    THEN (IF v.t = "null" THEN BufferWriter_uint8(w, 110)
          ELSE IF v.t = "array" THEN toBufferInternalArray(hs, v, w)
          ELSE toBufferInternalObject(hs, v, w))
    ELSE IF TypeOf(v) = "string" THEN toBufferInternalString(v, w)
    ELSE IF TypeOf(v) = "number" THEN toBufferInternalNumber(v, w)
    ELSE IF TypeOf(v) = "boolean" THEN toBufferInternalBoolean(v, w)
    ELSE w

toBufferInternal(hs, v, w) ==
    IF ~w.ok THEN w
    ELSE IF TypeOf(v) = "object"
    THEN (IF v.t = "null" THEN BufferWriter_uint8(w, 110)
          ELSE IF v.t = "array" THEN toBufferInternalArray(hs, v, w)
          ELSE toBufferInternalObject(hs, v, w))
    ELSE IF TypeOf(v) = "string" THEN toBufferInternalString(v, w)
    ELSE IF TypeOf(v) = "number" THEN toBufferInternalNumber(v, w)
    ELSE IF TypeOf(v) = "boolean" THEN toBufferInternalBoolean(v, w)
    ELSE Throw(w, "Invalid type: " \o TypeOf(v), <<>>)

\* what a top-level call hands back: ret is the returned value, buf the
\* returned buffer, off the reader's cursor when the call ended
Result(ok, ret, buf, off, used, err, detail) ==
    [ok |-> ok, ret |-> ret, buf |-> buf, off |-> off, used |-> used,
     err |-> err, detail |-> detail]

toBuffer(hs, v) ==
    LET w == toBufferInternal(hs, v, BufferWriter_uint8(NewWriter, 0))
    IN  IF w.ok
        THEN Result(TRUE, Undefined, BufferWriter_toBuffer(w), 0, w.used, "", <<>>)
        ELSE Result(FALSE, Undefined, <<>>, 0, w.used, w.err, w.detail)

(***************************************************************************)
(* BufferReader.  A reader is [ok, off, val, used, err, detail] over the   *)
(* buffer buf: off is this.offset, val the value the last call returned,   *)
(* used lists the helpers whose fromBufferFn ran.                          *)
(***************************************************************************)
NewReader(off) ==
    [ok |-> TRUE, off |-> off, val |-> Undefined, used |-> <<>>, err |-> "",
     detail |-> <<>>]

Ret(r, v) == IF r.ok THEN [r EXCEPT !.val = v] ELSE r

Advance(r, n, v) == [r EXCEPT !.off = @ + n, !.val = v]

\* buff.slice(start, end): both ends are clamped to the buffer
Slice(buf, start, end) ==
    IF start >= Len(buf) \/ end <= start
    THEN <<>>
    ELSE SubSeq(buf, start + 1, IF end < Len(buf) THEN end ELSE Len(buf))

BufferReader_buffer(buf, r, length) ==
    IF ~r.ok THEN r
    ELSE Advance(r, length, Slice(buf, r.off, r.off + length))

\* readDoubleBE throws when fewer than 8 bytes are left
BufferReader_double(buf, r) ==
    IF ~r.ok THEN r
    ELSE IF r.off + 8 <= Len(buf)
    THEN Advance(r, 8, SubSeq(buf, r.off + 1, r.off + 8))
    ELSE Throw(r, "RangeError", <<>>)

\* mutant: peek consumes the byte it looks at
BufferReader_peek_consume(buf, r) ==
    IF ~r.ok THEN r
    ELSE IF r.off < Len(buf) THEN Advance(r, 1, buf[r.off + 1])
    ELSE Throw(r, "Unexpected end of stream", <<>>)

BufferReader_peek(buf, r) ==
    IF ~r.ok THEN r
    ELSE IF r.off < Len(buf) THEN Ret(r, buf[r.off + 1])
    ELSE Throw(r, "Unexpected end of stream", <<>>)

\* mutant: skip leaves this.offset where it was
BufferReader_skip_stay(r) == r

BufferReader_skip(r) == IF ~r.ok THEN r ELSE [r EXCEPT !.off = @ + 1]

\* mutant: the text is read but this.offset is left where it was
BufferReader_string_noAdvance(buf, r, length) ==
    IF ~r.ok THEN r
    ELSE Ret(r, Slice(buf, r.off, r.off + length))

\* buff.toString("binary"): one code unit per byte
BufferReader_string(buf, r, length) ==
    IF ~r.ok THEN r
    ELSE Advance(r, length, Slice(buf, r.off, r.off + length))

BufferReader_uint8(buf, r) ==
    IF ~r.ok THEN r
    ELSE IF r.off + 1 <= Len(buf) THEN Advance(r, 1, buf[r.off + 1])
    ELSE Throw(r, "RangeError", <<>>)

BufferReader_uint16(buf, r) ==
    IF ~r.ok THEN r
    ELSE IF r.off + 2 <= Len(buf)
    THEN Advance(r, 2, buf[r.off + 1] * 256 + buf[r.off + 2])
    ELSE Throw(r, "RangeError", <<>>)

\* the value read is [hi, lo], hi * 65536 + lo
BufferReader_uint32(buf, r) ==
    IF ~r.ok THEN r
    ELSE IF r.off + 4 <= Len(buf)
    THEN Advance(r, 4, [hi |-> buf[r.off + 1] * 256 + buf[r.off + 2],
                        lo |-> buf[r.off + 3] * 256 + buf[r.off + 4]])
    ELSE Throw(r, "RangeError", <<>>)

\* mutant: the two marker bits of a 16-bit size are not masked off
BufferReader_size_noMask(buf, r) ==
    LET p == BufferReader_peek(buf, r)
    IN  IF ~p.ok THEN p
        ELSE IF p.val < 128 THEN BufferReader_uint8(buf, r)
        ELSE IF p.val < 192 THEN BufferReader_uint16(buf, r)
        ELSE IF p.val < 224
        THEN LET u == BufferReader_uint32(buf, r)
             IN  Ret(u, (u.val.hi % 8192) * 65536 + u.val.lo)
        ELSE Throw(r, "Invalid size encountered", <<p.val>>)

BufferReader_size(buf, r) ==
    LET p == BufferReader_peek(buf, r)
    IN  IF ~p.ok THEN p
        ELSE IF p.val < 128 THEN BufferReader_uint8(buf, r)
        ELSE IF p.val < 192
        THEN LET u == BufferReader_uint16(buf, r) IN Ret(u, u.val % 16384)
        ELSE IF p.val < 224
        THEN LET u == BufferReader_uint32(buf, r)
             IN  Ret(u, (u.val.hi % 8192) * 65536 + u.val.lo)
        ELSE Throw(r, "Invalid size encountered", <<p.val>>)

(***************************************************************************)
(* result[key] = value and result.push(value) on the container that a      *)
(* decode builds.  Own properties keep the order of Object.keys(): array   *)
(* indices ascending, then the other keys in the order they were added.    *)
(* Array indices are modelled below 10^9.                                  *)
(***************************************************************************)
IsArrayIndex(k) == IsCanonicalInt(k) /\ Len(k) <= 9

IndexOf(k) == LET b == DigitsToBig(k, 1, 0, 0) IN b.hi * 65536 + b.lo

\* does the new key k come before the existing key e
KeyBefore(k, e) ==
    IsArrayIndex(k) /\ (~IsArrayIndex(e) \/ IndexOf(k) < IndexOf(e))

SetProp(entries, k, v) ==
    IF HasProp(entries, k)
    THEN [i \in 1..Len(entries) |->
              IF entries[i].k = k THEN Prop(k, v) ELSE entries[i]]
    ELSE LET n == Cardinality({i \in 1..Len(entries) : ~KeyBefore(k, entries[i].k)})
         IN  SubSeq(entries, 1, n) \o <<Prop(k, v)>>
                 \o SubSeq(entries, n + 1, Len(entries))

ArrayPush(a, v) ==
    Arr(a.len + 1, SetProp(a.entries, IndexKey(a.len), v))

ArraySet(a, k, v) ==
    Arr(IF IsArrayIndex(k) /\ IndexOf(k) >= a.len THEN IndexOf(k) + 1 ELSE a.len,
        SetProp(a.entries, k, v))

ObjectSet(o, k, v) == Obj(o.cls, SetProp(o.entries, k, v))

\* readDoubleBE
DoubleValue(ieee) ==
    IF \E d \in Doubles : d.ieee = ieee
    THEN (CHOOSE d \in Doubles : d.ieee = ieee).val
    ELSE Dbl(ieee)

\* String(key), the property name that result[key] uses.  A key that is no
\* text, number, boolean or null converts as a plain object does.
ToPropertyKey(v) ==
    CASE v.t = "string" -> v.s
      [] v.t = "number" /\ v.integral /\ v.hi <= 65535 ->
            (IF LessThanZero(v) THEN <<45>> ELSE <<>>) \o BigDigits(v.hi, v.lo)
      [] v.t = "number" /\ ~(v.integral /\ v.hi <= 65535) ->
            IF \E d \in Doubles : d.ieee = v.ieee
            THEN (CHOOSE d \in Doubles : d.ieee = v.ieee).text
            ELSE <<78, 97, 78>>
      [] v.t = "null" -> <<110, 117, 108, 108>>
      [] v.t = "boolean" ->
            IF v.b THEN <<116, 114, 117, 101>> ELSE <<102, 97, 108, 115, 101>>
      [] OTHER -> <<91, 111, 98, 106, 101, 99, 116, 32, 79, 98, 106, 101, 99,
                    116, 93>>

(***************************************************************************)
(* BufferSerializer, decode direction.                                     *)
(***************************************************************************)
HelperFromBufferFn(kind, buf, r) ==
    CASE kind = "Klass" ->
            LET s == BufferReader_size(buf, r)
            IN  Ret(s, Instance("Klass", s.val))
      [] kind = "Byte" ->
            LET u == BufferReader_uint8(buf, r)
            IN  Ret(u, Instance("Byte", u.val))
      [] kind = "None" -> Throw(r, "TypeError", <<>>)
      [] OTHER -> Ret(BufferReader_uint8(buf, r), Null)

\* mutant: a byte that is no tag is taken for a null
UnknownCode_asNull(c) == Ret(c, Null)

\* the default of the switch on the tag: c is the reader after the tag
UnknownCode(c) ==
    Throw(c, "Unable to deserialize string, unknown code", <<c.val>>)

RECURSIVE fromBufferInternal(_, _, _)

\* while (buffReader.peek() !== 0x21) { result.push(value) }; skip()
RECURSIVE fromBufferInternalArrayDense(_, _, _, _)

\* mutant: the terminator of a dense list is seen but not consumed
fromBufferInternalArrayDense_noSkip(hs, buf, r, result) ==
    LET p == BufferReader_peek(buf, r)
    IN  IF ~p.ok THEN p
        ELSE IF p.val = 33 THEN Ret(r, result)
        ELSE LET e == fromBufferInternal(hs, buf, r)
             IN  IF ~e.ok THEN e
                 ELSE fromBufferInternalArrayDense(hs, buf, e,
                          ArrayPush(result, e.val))

fromBufferInternalArrayDense(hs, buf, r, result) ==
    LET p == BufferReader_peek(buf, r)
    IN  IF ~p.ok THEN p
        ELSE IF p.val = 33 THEN Ret(BufferReader_skip(r), result)
        ELSE LET e == fromBufferInternal(hs, buf, r)
             IN  IF ~e.ok THEN e
                 ELSE fromBufferInternalArrayDense(hs, buf, e,
                          ArrayPush(result, e.val))

\* while (buffReader.peek() !== 0x21) { result[key] = value }; skip()
RECURSIVE fromBufferInternalArraySparse(_, _, _, _)
fromBufferInternalArraySparse(hs, buf, r, result) ==
    LET p == BufferReader_peek(buf, r)
    IN  IF ~p.ok THEN p
        ELSE IF p.val = 33 THEN Ret(BufferReader_skip(r), result)
        ELSE LET k == fromBufferInternal(hs, buf, r)
                 e == fromBufferInternal(hs, buf, k)
             IN  IF ~e.ok THEN e
                 ELSE fromBufferInternalArraySparse(hs, buf, e,
                          ArraySet(result, ToPropertyKey(k.val), e.val))

RECURSIVE fromBufferInternalObjectGeneric(_, _, _, _)
fromBufferInternalObjectGeneric(hs, buf, r, result) ==
    LET p == BufferReader_peek(buf, r)
    IN  IF ~p.ok THEN p
        ELSE IF p.val = 33 THEN Ret(BufferReader_skip(r), result)
        ELSE LET k == fromBufferInternal(hs, buf, r)
                 e == fromBufferInternal(hs, buf, k)
             IN  IF ~e.ok THEN e
                 ELSE fromBufferInternalObjectGeneric(hs, buf, e,
                          ObjectSet(result, ToPropertyKey(k.val), e.val))

\* date.setTime(seconds * 1000 + ms): ms may exceed 999 and carries over
DateOf(sec, ms) ==
    LET lo == sec.lo + (ms \div 1000)
    IN  Date(FALSE, sec.hi + (lo \div 65536), lo % 65536, ms % 1000)

fromBufferInternalObjectDateD(buf, r) ==
    LET sec == BufferReader_uint32(buf, r)
        ms  == BufferReader_uint16(buf, sec)
    IN  Ret(ms, DateOf(sec.val, ms.val))

fromBufferInternalObjectDateT(buf, r) ==
    LET sec == BufferReader_uint32(buf, r)
    IN  Ret(sec, DateOf(sec.val, 0))

UseHelperR(r, i) == IF ~r.ok THEN r ELSE [r EXCEPT !.used = Append(@, i)]

\* mutant: the scan keeps the last helper of that name, not the first
fromBufferInternalObjectHelper_last(hs, buf, r) ==
    LET s    == BufferReader_size(buf, r)
        name == BufferReader_string(buf, s, s.val)
        m    == {i \in 1..Len(hs) : hs[i].name = name.val}
    IN  IF ~name.ok THEN name
        ELSE IF m # {}
        THEN LET i == CHOOSE i \in m : \A j \in m : i >= j
             IN  HelperFromBufferFn(hs[i].kind, buf, UseHelperR(name, i))
        ELSE Throw(name,
                   "Serialized data uses custom helper but it is not defined",
                   name.val)

\* mutant: a name that is not registered falls back to the first helper
fromBufferInternalObjectHelper_fallback(hs, buf, r) ==
    LET s    == BufferReader_size(buf, r)
        name == BufferReader_string(buf, s, s.val)
        m    == {i \in 1..Len(hs) : hs[i].name = name.val}
    IN  IF ~name.ok THEN name
        ELSE IF m # {}
        THEN LET i == CHOOSE i \in m : \A j \in m : i <= j
             IN  HelperFromBufferFn(hs[i].kind, buf, UseHelperR(name, i))
        ELSE IF hs # <<>>
        THEN HelperFromBufferFn(hs[1].kind, buf, UseHelperR(name, 1))
        ELSE Throw(name,
                   "Serialized data uses custom helper but it is not defined",
                   name.val)

fromBufferInternalObjectHelper(hs, buf, r) ==
    LET s    == BufferReader_size(buf, r)
        name == BufferReader_string(buf, s, s.val)
        m    == {i \in 1..Len(hs) : hs[i].name = name.val}
    IN  IF ~name.ok THEN name
        ELSE IF m # {}
        THEN LET i == CHOOSE i \in m : \A j \in m : i <= j
             IN  HelperFromBufferFn(hs[i].kind, buf, UseHelperR(name, i))
        ELSE Throw(name,
                   "Serialized data uses custom helper but it is not defined",
                   name.val)

fromBufferInternalObjectRegExp(buf, r) ==
    LET s       == BufferReader_size(buf, r)
        pattern == BufferReader_string(buf, s, s.val)
        flags   == BufferReader_uint8(buf, pattern)
    IN  Ret(flags, RegExp(pattern.val, flags.val % 2 = 1,
                          (flags.val \div 2) % 2 = 1,
                          (flags.val \div 4) % 2 = 1, FALSE))

fromBufferInternal(hs, buf, r) ==
    LET c == BufferReader_uint8(buf, r)
    IN  IF ~c.ok THEN c
        ELSE CASE c.val = 43 ->
                    LET u == BufferReader_uint8(buf, c)
                    IN  Ret(u, Num(FALSE, 0, u.val))
               [] c.val = 45 ->
                    LET u == BufferReader_uint8(buf, c)
                    IN  Ret(u, Num(TRUE, 0, u.val))
               [] c.val = 65 ->
                    fromBufferInternalArraySparse(hs, buf, c, Arr(0, <<>>))
               [] c.val = 66 ->
                    LET s == BufferReader_size(buf, c)
                        b == BufferReader_buffer(buf, s, s.val)
                    IN  Ret(b, Buf(b.val))
               [] c.val = 68 -> fromBufferInternalObjectDateD(buf, c)
               [] c.val = 73 ->
                    LET u == BufferReader_uint32(buf, c)
                    IN  Ret(u, Num(TRUE, u.val.hi, u.val.lo))
               [] c.val = 79 ->
                    fromBufferInternalObjectGeneric(hs, buf, c,
                                                    Obj("Object", <<>>))
               [] c.val = 80 ->
                    LET u == BufferReader_uint32(buf, c)
                    IN  Ret(u, Num(FALSE, u.val.hi, u.val.lo))
               [] c.val = 82 -> fromBufferInternalObjectRegExp(buf, c)
               [] c.val = 84 -> fromBufferInternalObjectDateT(buf, c)
               [] c.val = 90 -> fromBufferInternalObjectHelper(hs, buf, c)
               [] c.val = 97 ->
                    fromBufferInternalArrayDense(hs, buf, c, Arr(0, <<>>))
               [] c.val = 100 ->
                    LET d == BufferReader_double(buf, c)
                    IN  Ret(d, DoubleValue(d.val))
               [] c.val = 102 -> Ret(c, Bool(FALSE))
               [] c.val = 105 ->
                    LET u == BufferReader_uint16(buf, c)
                    IN  Ret(u, Num(TRUE, 0, u.val))
               [] c.val = 110 -> Ret(c, Null)
               [] c.val = 112 ->
                    LET u == BufferReader_uint16(buf, c)
                    IN  Ret(u, Num(FALSE, 0, u.val))
               [] c.val = 115 ->
                    LET s == BufferReader_size(buf, c)
                        t == BufferReader_string(buf, s, s.val)
                    IN  Ret(t, Str(t.val))
               [] c.val = 116 -> Ret(c, Bool(TRUE))
               [] OTHER -> UnknownCode(c)

\* mutant: the version byte is skipped without being compared to 0
fromBuffer_anyVersion(hs, buf, off) ==
    LET r == fromBufferInternal(hs, buf, NewReader(off + 1))
    IN  IF r.ok
        THEN Result(TRUE, r.val, <<>>, r.off, r.used, "", <<>>)
        ELSE Result(FALSE, Undefined, <<>>, r.off, r.used, r.err, r.detail)

fromBuffer(hs, buf, off) ==
    IF off < Len(buf) /\ buf[off + 1] = 0
    THEN LET r == fromBufferInternal(hs, buf, NewReader(off + 1))
         IN  IF r.ok
             THEN Result(TRUE, r.val, <<>>, r.off, r.used, "", <<>>)
             ELSE Result(FALSE, Undefined, <<>>, r.off, r.used, r.err, r.detail)
    ELSE Result(FALSE, Undefined, <<>>, off, <<>>,
                "Invalid version identifier", <<>>)

(***************************************************************************)
(* The inputs the model draws from.                                        *)
(***************************************************************************)
TextKlass == <<75, 108, 97, 115, 115>>

TextAbc == <<97, 98, 99>>

TextTwo == <<116, 119, 111>>

\* the euro sign, a code unit above 0xFF
TextEuro == <<8364>>

Ieee125 == <<63, 244, 0, 0, 0, 0, 0, 0>>

Registrations ==
    { [name |-> TextKlass, kind |-> "Klass"],
      [name |-> <<66>>, kind |-> "Byte"],
      [name |-> TextKlass, kind |-> "Byte"],
      [name |-> <<42>>, kind |-> "Any"] }

\* register("B", undefined, undefined, undefined)
Malformed == { [name |-> <<66>>, kind |-> "None"] }

\* integers at the edges of the 8-, 16- and 32-bit widths, of both signs
EdgeNumbers ==
    { Num(FALSE, 0, 0), Num(FALSE, 0, 255), Num(FALSE, 0, 256),
      Num(FALSE, 0, 65535), Num(FALSE, 1, 0), Num(FALSE, 65535, 65535),
      Num(TRUE, 0, 1), Num(TRUE, 0, 255), Num(TRUE, 0, 256),
      Num(TRUE, 0, 65535), Num(TRUE, 1, 0), Num(TRUE, 65535, 65535),
      Wide(FALSE, <<65, 240, 0, 0, 0, 0, 0, 0>>),
      Wide(TRUE, <<193, 240, 0, 0, 0, 0, 0, 0>>) }

Scalars ==
    { Null, Undefined, Function, Symbol, Bool(TRUE), Bool(FALSE),
      Num(FALSE, 0, 1), Num(FALSE, 0, 33), Num(TRUE, 0, 60),
      Num(FALSE, 0, 300), Num(TRUE, 3, 6432), Dbl(Ieee125),
      Str(<<>>), Str(TextAbc), Str(<<33>>), Str(TextEuro),
      Buf(<<116, 101, 115, 116>>), Buf(<<33>>),
      Date(FALSE, 22150, 29296, 1), Date(FALSE, 22150, 29296, 0),
      Date(TRUE, 0, 0, 1), Date(TRUE, 0, 1, 0), Date(FALSE, 0, 0, 0),
      Date(FALSE, 0, 0, 999),
      RegExp(<<112, 97, 116, 116>>, TRUE, FALSE, TRUE, FALSE),
      RegExp(<<97>>, FALSE, FALSE, FALSE, TRUE),
      Instance("Klass", 2), Instance("Byte", 7), Instance("Byte", 200) }

Arrays ==
    { Arr(0, <<>>),
      Arr(2, <<Prop(<<48>>, Num(FALSE, 0, 1)), Prop(<<49>>, Bool(TRUE))>>),
      Arr(3, <<Prop(<<50>>, Str(TextTwo))>>),
      Arr(0, <<Prop(<<112, 114, 111, 112>>, Str(<<118, 97, 108>>))>>),
      Arr(3, <<Prop(<<48>>, Num(FALSE, 0, 1))>>),
      Arr(1, <<Prop(<<112>>, Null)>>),
      Arr(1, <<Prop(<<48>>, Undefined)>>),
      Arr(1, <<Prop(<<48>>, Function)>>),
      Arr(2, <<Prop(<<48>>, Arr(1, <<Prop(<<48>>, Num(FALSE, 0, 33))>>)),
               Prop(<<49>>, Str(<<33>>))>>),
      Arr(1, <<Prop(<<48>>, Instance("Klass", 2))>>),
      Arr(3, <<Prop(<<50>>, Null), Prop(<<48, 50>>, Bool(TRUE))>>),
      Arr(4, <<Prop(<<49>>, Bool(TRUE)), Prop(<<51>>, Num(FALSE, 0, 300))>>),
      Arr(2, <<Prop(<<48>>, Str([i \in 1..33 |-> 97])),
               Prop(<<49>>, Arr(1, <<Prop(<<48>>, Instance("Byte", 33))>>))>>) }

Objects ==
    { Obj("Object", <<>>),
      Obj("Object", <<Prop(<<111, 98, 106>>, Bool(TRUE))>>),
      Obj("Object", <<Prop(<<49>>, Str(TextAbc)), Prop(<<98>>, Null)>>),
      Obj("Object", <<Prop(<<97>>, Undefined)>>),
      Obj("Object", <<Prop(<<102>>, Function)>>),
      Obj("Object", <<Prop(<<107>>, Instance("Byte", 7))>>),
      Obj("Object", <<Prop(<<110>>, Obj("Object", <<Prop(<<115>>, Symbol)>>))>>),
      Obj("Object", <<Prop(<<97>>,
                           Arr(1, <<Prop(<<48>>, Buf(<<33>>))>>))>>),
      Obj("Object", <<Prop(<<48>>, Null), Prop(<<51, 48, 48>>, Null),
                      Prop(<<55, 48, 48, 48, 48>>, Null),
                      Prop(<<52, 50, 57, 52, 57, 54, 55, 50, 57, 54>>, Null),
                      Prop(<<48, 49>>, Null), Prop(<<45, 49>>, Null),
                      Prop(<<49, 46, 53>>, Null), Prop(<<>>, Null)>>),
      Obj("Object", <<Prop(<<51, 51>>, Arr(0, <<>>)),
                      Prop(<<33>>, Obj("Object", <<Prop(<<33>>, Num(FALSE, 0, 33))>>)),
                      Prop(<<122>>, Bool(FALSE))>>) }

Things == Scalars \cup EdgeNumbers \cup Arrays \cup Objects

\* bytes placed before and after an encoded record
Pads == { <<>>, <<7, 0>> }

Trails == { <<>>, <<33>>, <<0, 116>> }

\* buffers that no toBuffer call of the model produced
Crafted ==
    { <<>>, <<0>>, <<1, 116>>, <<0, 0>>, <<0, 33>>,
      <<0, 90, 1, 120>>,
      <<0, 90, 5, 75, 108, 97, 115, 115, 2>>,
      <<0, 90, 5, 75>>,
      <<0, 97, 90, 1, 66, 7, 90, 1, 120, 33>>,
      <<0, 115, 5, 97>>,
      <<0, 97, 43, 1>>,
      <<0, 65, 43, 2, 115, 3, 116, 119, 111, 33>>,
      <<0, 79, 115, 3, 111, 98, 106, 116, 33>>,
      <<0, 100, 63, 244, 0, 0, 0, 0, 0, 0>>,
      <<0, 68, 86, 134, 114, 112, 0, 1>>,
      <<0, 82, 4, 112, 97, 116, 116, 5>>,
      <<0, 66, 224>>,
      <<0, 97, 0, 33>>,
      <<0, 79, 1, 33>>,
      <<0, 65, 43, 2, 33>>,
      <<0, 79, 43, 2, 33, 33>>,
      <<7, 0, 65, 43, 2, 33>>,
      <<0, 97, 115, 5, 97>>,
      <<0, 79, 97, 33, 110, 65, 33, 97, 97, 33, 33, 33, 116>> }

\* arguments of uint32, as [neg, hi, lo]: 0x6789ABCD and 2^32
Uint32Inputs ==
    { [neg |-> FALSE, hi |-> 26505, lo |-> 43981],
      [neg |-> FALSE, hi |-> 65536, lo |-> 0] }

\* buffers handed to a stand-alone reader
ReadBuffers ==
    { <<1, 128, 2, 192, 0, 0, 4>>,
      Ieee125 \o <<97, 98>>,
      <<224, 1>> }

SizeInputs ==
    { -1, 0, 1, 126, 127, 128, 16382, 16383, 16384, 536870910, 536870911,
      536870912 }

(***************************************************************************)
(* The state machine: one engine, and one stand-alone writer.              *)
(***************************************************************************)
NoResult == Result(TRUE, Undefined, <<>>, 0, <<>>, "", <<>>)

NoCall ==
    [op |-> "new", n |-> 0, arg |-> <<>>, ok |-> TRUE, err |-> "",
     before |-> <<>>, ret |-> <<>>]

NoRead ==
    [op |-> "new", n |-> 0, ok |-> TRUE, err |-> "", before |-> 0,
     val |-> Undefined]

NoReturn == [val |-> Undefined, err |-> "", detail |-> <<>>]

NoDecode == [status |-> "idle", pos |-> 0, stack |-> <<>>, ret |-> NoReturn]

Init ==
    /\ helpers = <<>>
    /\ op = "new"
    /\ thing = Undefined
    /\ enc = NoResult
    /\ buff = <<>>
    /\ offset = 0
    /\ out = NoResult
    /\ bufferList = <<>>
    /\ wcall = NoCall
    /\ readBuffer = <<>>
    /\ readOffset = 0
    /\ rcall = NoRead
    /\ decode = NoDecode

\* mutant: the new helper is put in front of the others
register_unshift(hs, h) == <<h>> \o hs

\* serializer.register(name, checkFn, toBufferFn, fromBufferFn)
register(hs, h) == Append(hs, h)

Register(h) ==
    /\ Len(helpers) < MaxHelpers
    /\ helpers' = register(helpers, h)
    /\ op' = "register"
    /\ out' = NoResult
    /\ buff' = <<>>
    /\ offset' = 0
    /\ UNCHANGED <<thing, enc, writerVars, readerVars, decodeVars>>

\* buffer = serializer.toBuffer(thing)
ToBuffer(v) ==
    /\ op' = "toBuffer"
    /\ thing' = v
    /\ enc' = toBuffer(helpers, v)
    /\ out' = enc'
    /\ buff' = <<>>
    /\ offset' = 0
    /\ UNCHANGED <<helpers, writerVars, readerVars, decodeVars>>

\* serializer.fromBuffer(buffer, offset) on the record toBuffer returned,
\* with other bytes before and after it
FromBufferEncoded(pad, trail) ==
    /\ enc.ok /\ enc.buf # <<>>
    /\ op' = "fromBuffer"
    /\ buff' = pad \o enc.buf \o trail
    /\ offset' = Len(pad)
    /\ out' = fromBuffer(helpers, buff', offset')
    /\ UNCHANGED <<helpers, thing, enc, writerVars, readerVars, decodeVars>>

\* serializer.fromBuffer(buffer) on the first n bytes of that record
FromBufferTruncated(n) ==
    /\ enc.ok /\ n < Len(enc.buf)
    /\ op' = "fromBuffer"
    /\ buff' = SubSeq(enc.buf, 1, n)
    /\ offset' = 0
    /\ out' = fromBuffer(helpers, buff', 0)
    /\ UNCHANGED <<helpers, thing, enc, writerVars, readerVars, decodeVars>>

\* serializer.fromBuffer(buffer, offset) on any other buffer
FromBufferCrafted(b, off) ==
    /\ op' = "fromBuffer"
    /\ buff' = b
    /\ offset' = off
    /\ out' = fromBuffer(helpers, b, off)
    /\ thing' = Undefined
    /\ enc' = NoResult
    /\ UNCHANGED <<helpers, writerVars, readerVars, decodeVars>>

Next ==
    \/ \E h \in Registrations : Register(h)
    \/ \E v \in Things : ToBuffer(v)
    \/ \E pad \in Pads, trail \in Trails : FromBufferEncoded(pad, trail)
    \/ \E b \in Crafted, off \in 0..1 : FromBufferCrafted(b, off)

Spec == Init /\ [][Next]_vars

\* the engine when its callers also register what is no helper and decode
\* records that were cut short
MisuseNext ==
    \/ \E h \in Registrations \cup Malformed : Register(h)
    \/ \E v \in Things : ToBuffer(v)
    \/ \E pad \in Pads, trail \in Trails : FromBufferEncoded(pad, trail)
    \/ \E n \in 0..MaxRecord : FromBufferTruncated(n)
    \/ \E b \in Crafted, off \in 0..1 : FromBufferCrafted(b, off)

MisuseSpec == Init /\ [][MisuseNext]_vars

\* the stand-alone writer as the record the BufferWriter operators take
Writer == [NewWriter EXCEPT !.bl = bufferList]

WriterCall(name, n, arg, w) ==
    /\ bufferList' = w.bl
    /\ wcall' = [op |-> name, n |-> n, arg |-> arg, ok |-> w.ok, err |-> w.err,
                 before |-> bufferList, ret |-> <<>>]
    /\ UNCHANGED <<engineVars, readerVars, decodeVars>>

WriterSize(n) ==
    /\ Len(bufferList) < MaxSegments
    /\ WriterCall("size", n, <<>>, BufferWriter_size(Writer, n))

WriterUint8(n) ==
    /\ Len(bufferList) < MaxSegments
    /\ WriterCall("uint8", n, <<>>, BufferWriter_uint8(Writer, n))

WriterUint16(n) ==
    /\ Len(bufferList) < MaxSegments
    /\ WriterCall("uint16", n, <<>>, BufferWriter_uint16(Writer, n))

\* val is [neg, hi, lo]
WriterUint32(val) ==
    /\ Len(bufferList) < MaxSegments
    /\ WriterCall("uint32", 0, val, BufferWriter_uint32(Writer, val))

WriterDouble(ieee) ==
    /\ Len(bufferList) < MaxSegments
    /\ WriterCall("double", 0, ieee, BufferWriter_double(Writer, ieee))

WriterBuffer(b) ==
    /\ Len(bufferList) < MaxSegments
    /\ WriterCall("buffer", Len(b), b, BufferWriter_buffer(Writer, b))

WriterString(str) ==
    /\ Len(bufferList) < MaxSegments
    /\ WriterCall("string", Len(str), str, BufferWriter_string(Writer, str))

WriterToBuffer ==
    /\ wcall' = [op |-> "toBuffer", n |-> 0, arg |-> <<>>, ok |-> TRUE,
                 err |-> "", before |-> bufferList,
                 ret |-> BufferWriter_toBuffer(Writer)]
    /\ UNCHANGED <<bufferList, engineVars, readerVars, decodeVars>>

WriterNext ==
    \/ \E n \in SizeInputs : WriterSize(n)
    \/ \E n \in {1, 256} : WriterUint8(n)
    \/ \E n \in {9029, 65536} : WriterUint16(n)
    \/ \E val \in Uint32Inputs : WriterUint32(val)
    \/ WriterDouble(Ieee125)
    \/ WriterBuffer(<<116, 101>>)
    \/ \E str \in {TextAbc, TextEuro} : WriterString(str)
    \/ WriterToBuffer

WriterSpec == Init /\ [][WriterNext]_vars

\* the stand-alone reader as the record the BufferReader operators take
Reader == NewReader(readOffset)

\* new BufferReader(buff, offset)
ReaderNew(b, off) ==
    /\ readBuffer' = b
    /\ readOffset' = off
    /\ rcall' = [NoRead EXCEPT !.n = off, !.before = off]
    /\ UNCHANGED <<engineVars, writerVars, decodeVars>>

ReaderCall(name, n, r) ==
    /\ readOffset' = r.off
    /\ rcall' = [op |-> name, n |-> n, ok |-> r.ok, err |-> r.err,
                 before |-> readOffset, val |-> r.val]
    /\ UNCHANGED <<readBuffer, engineVars, writerVars, decodeVars>>

\* the reader is not followed further than MaxOverrun past the end
InReach == readOffset < Len(readBuffer) + MaxOverrun

ReaderPeek ==
    /\ InReach
    /\ ReaderCall("peek", 0, BufferReader_peek(readBuffer, Reader))

ReaderSkip ==
    /\ InReach
    /\ ReaderCall("skip", 0, BufferReader_skip(Reader))

ReaderUint8 ==
    /\ InReach
    /\ ReaderCall("uint8", 0, BufferReader_uint8(readBuffer, Reader))

ReaderUint16 ==
    /\ InReach
    /\ ReaderCall("uint16", 0, BufferReader_uint16(readBuffer, Reader))

ReaderUint32 ==
    /\ InReach
    /\ ReaderCall("uint32", 0, BufferReader_uint32(readBuffer, Reader))

ReaderDouble ==
    /\ InReach
    /\ ReaderCall("double", 0, BufferReader_double(readBuffer, Reader))

ReaderSize ==
    /\ InReach
    /\ ReaderCall("size", 0, BufferReader_size(readBuffer, Reader))

ReaderBuffer(n) ==
    /\ InReach
    /\ ReaderCall("buffer", n, BufferReader_buffer(readBuffer, Reader, n))

ReaderString(n) ==
    /\ InReach
    /\ ReaderCall("string", n, BufferReader_string(readBuffer, Reader, n))

ReaderNext ==
    \/ \E b \in ReadBuffers, off \in 0..1 : ReaderNew(b, off)
    \/ ReaderPeek
    \/ ReaderSkip
    \/ ReaderUint8
    \/ ReaderUint16
    \/ ReaderUint32
    \/ ReaderDouble
    \/ ReaderSize
    \/ \E n \in 0..3 : ReaderBuffer(n)
    \/ \E n \in 0..3 : ReaderString(n)

ReaderSpec == Init /\ [][ReaderNext]_vars

(***************************************************************************)
(* One fromBuffer call followed step by step.  The stack is that of the *)
(* container decoders, each in its while loop; a step is one pass through  *)
(* the head of the innermost loop, or one call of fromBufferInternal that  *)
(* the loop body makes.  A value that is no container is read in one step, *)
(* a helper's fromBufferFn included.  An exception unwinds every frame.    *)
(***************************************************************************)
\* result = [] or {} on entry to the container decoder that the tag selects
OpenFrame(tag) ==
    [kind |-> IF tag = 97 THEN "dense" ELSE IF tag = 65 THEN "sparse" ELSE "object",
     result |-> IF tag = 79 THEN Obj("Object", <<>>) ELSE Arr(0, <<>>),
     hasKey |-> FALSE, key |-> Undefined]

\* fromBufferInternal returns v to the loop body on top of the stack:
\* result.push(v), key = v, or result[key] = v
Deliver(stack, v) ==
    LET f == stack[Len(stack)]
    IN  [stack EXCEPT ![Len(stack)] =
            IF f.kind = "dense" THEN [f EXCEPT !.result = ArrayPush(@, v)]
            ELSE IF ~f.hasKey THEN [f EXCEPT !.hasKey = TRUE, !.key = v]
            ELSE [f EXCEPT !.hasKey = FALSE, !.key = Undefined,
                           !.result = IF f.kind = "sparse"
                                      THEN ArraySet(@, ToPropertyKey(f.key), v)
                                      ELSE ObjectSet(@, ToPropertyKey(f.key), v)]]

\* a call returns v with the cursor at pos: to its caller, or out of fromBuffer
Returned(stack, pos, v) ==
    IF stack = <<>>
    THEN [status |-> "returned", pos |-> pos, stack |-> <<>>,
          ret |-> [NoReturn EXCEPT !.val = v]]
    ELSE [status |-> "running", pos |-> pos, stack |-> Deliver(stack, v),
          ret |-> NoReturn]

\* the reader r threw
Raised(r) ==
    [status |-> "raised", pos |-> r.off, stack |-> <<>>,
     ret |-> [val |-> Undefined, err |-> r.err, detail |-> r.detail]]

\* serializer.fromBufferInternal(buffReader) with the cursor at pos
ReadValue(hs, buf, stack, pos) ==
    LET c == BufferReader_uint8(buf, NewReader(pos))
    IN  IF ~c.ok THEN Raised(c)
        ELSE IF c.val \in {65, 79, 97}
        THEN [status |-> "running", pos |-> c.off,
              stack |-> Append(stack, OpenFrame(c.val)), ret |-> NoReturn]
        ELSE LET e == fromBufferInternal(hs, buf, NewReader(pos))
             IN  IF ~e.ok THEN Raised(e) ELSE Returned(stack, e.off, e.val)

\* while (buffReader.peek() !== 0x21) { ... }; buffReader.skip(); return result
LoopHead(hs, buf, stack, pos) ==
    LET p == BufferReader_peek(buf, NewReader(pos))
    IN  IF ~p.ok THEN Raised(p)
        ELSE IF p.val = 33
        THEN Returned(SubSeq(stack, 1, Len(stack) - 1), BufferReader_skip(p).off,
                      stack[Len(stack)].result)
        ELSE ReadValue(hs, buf, stack, pos)

\* serializer.fromBuffer(b, off), up to the call of fromBufferInternal; one
\* call in the life of the engine is followed
DecodeBegin(b, off) ==
    /\ decode.status = "idle"
    /\ op' = "fromBuffer"
    /\ buff' = b
    /\ offset' = off
    /\ out' = fromBuffer(helpers, b, off)
    /\ thing' = Undefined
    /\ enc' = NoResult
    /\ decode' = IF off < Len(b) /\ b[off + 1] = 0
                 THEN [NoDecode EXCEPT !.status = "running", !.pos = off + 1]
                 ELSE [NoDecode EXCEPT
                          !.status = "raised", !.pos = off,
                          !.ret.err = "Invalid version identifier"]
    /\ UNCHANGED <<helpers, writerVars, readerVars>>

DecodeCrafted(b, off) ==
    /\ DecodeBegin(b, off)

\* fromBuffer on the record of v, behind a pad
DecodeEncoded(v, pad) ==
    /\ toBuffer(helpers, v).ok
    /\ DecodeBegin(pad \o toBuffer(helpers, v).buf, Len(pad))

DecodeStep ==
    /\ decode.status = "running"
    /\ decode' = IF decode.stack # <<>> /\ ~decode.stack[Len(decode.stack)].hasKey
                 THEN LoopHead(helpers, buff, decode.stack, decode.pos)
                 ELSE ReadValue(helpers, buff, decode.stack, decode.pos)
    /\ UNCHANGED <<engineVars, writerVars, readerVars>>

\* the registrations made before the call that is followed
DecodeRegister(h) ==
    /\ decode.status = "idle"
    /\ Register(h)

\* the helpers registered for the call that is followed: the class of the
\* test suite, and one whose payload is a single byte
DecodeHelpers ==
    { [name |-> TextKlass, kind |-> "Klass"], [name |-> <<66>>, kind |-> "Byte"] }

DecodeNext ==
    \/ \E h \in DecodeHelpers : DecodeRegister(h)
    \/ \E b \in Crafted, off \in 0..2 : DecodeCrafted(b, off)
    \/ \E v \in Arrays \cup Objects, pad \in Pads : DecodeEncoded(v, pad)
    \/ DecodeStep

DecodeSpec == Init /\ [][DecodeNext]_vars

\* fromBuffer runs to its end without giving up the thread
DecodeLive == DecodeSpec /\ WF_vars(DecodeStep)

(***************************************************************************)
(* Vocabulary of the properties.                                           *)
(***************************************************************************)
IsContainer(v) == v.t \in {"array", "object"}

\* a value of the built-in kinds only, at every depth: no undefined, function
\* or symbol, and no instance of a caller's class
RECURSIVE Supported(_)
Supported(v) ==
    /\ v.t \notin {"undefined", "function", "symbol"}
    /\ IsContainer(v) =>
          /\ v.t = "object" => v.cls = "Object"
          /\ \A i \in 1..Len(v.entries) : Supported(v.entries[i].v)

\* the encoder, walking v, is handed a function or a symbol: lists are always
\* walked, keyed objects unless a registered predicate takes them over
RECURSIVE Reaches(_, _)
Reaches(hs, v) ==
    \/ v.t \in {"function", "symbol"}
    \/ /\ IsContainer(v)
       /\ v.t = "object" => Matching(hs, v) = {}
       /\ \E i \in 1..Len(v.entries) : Reaches(hs, v.entries[i].v)

\* v is encoded by the built-in rules without any error
RECURSIVE Plain(_, _)
Plain(hs, v) ==
    /\ v.t \notin {"undefined", "function", "symbol"}
    /\ v.t = "date" => ~v.neg /\ v.shi <= 65535
    /\ v.t \in {"object", "buffer", "date", "regexp"} => Matching(hs, v) = {}
    /\ IsContainer(v) => \A i \in 1..Len(v.entries) : Plain(hs, v.entries[i].v)

\* the only members of v that cannot be encoded are functions and symbols
RECURSIVE OnlyUnsupported(_, _)
OnlyUnsupported(hs, v) ==
    \/ v.t \in {"function", "symbol"}
    \/ /\ IsContainer(v)
       /\ v.t = "object" => Matching(hs, v) = {}
       /\ \A i \in 1..Len(v.entries) :
             Plain(hs, v.entries[i].v) \/ OnlyUnsupported(hs, v.entries[i].v)
       /\ \E i \in 1..Len(v.entries) : OnlyUnsupported(hs, v.entries[i].v)

\* fromBuffer was last called on the record that toBuffer made of thing
DecodedEncoded ==
    /\ op = "fromBuffer" /\ enc.ok /\ enc.buf # <<>>
    /\ offset + Len(enc.buf) <= Len(buff)
    /\ SubSeq(buff, offset + 1, offset + Len(enc.buf)) = enc.buf

\* v without the members whose value is undefined
WithoutUndefined(v) ==
    [v EXCEPT !.entries = SelectSeq(v.entries, LAMBDA e : e.v # Undefined)]

HasUndefinedMember(v) ==
    IsContainer(v) /\ \E i \in 1..Len(v.entries) : v.entries[i].v = Undefined

\* the helper that encoded thing is not hidden by an earlier one of its name
NotShadowed(hs, used) ==
    \A n \in 1..Len(used) :
        \A j \in 1..(used[n] - 1) : hs[j].name # hs[used[n]].name

\* the byte at which fromBuffer looks for the version
VersionOk == offset < Len(buff) /\ buff[offset + 1] = 0

(***************************************************************************)
(* C1.  Round trip: for every supported value v (null, boolean, number,    *)
(* text, byte-blob, timestamp, pattern, dense list, sparse list, keyed     *)
(* object, nested), fromBuffer(toBuffer(v)) is deep-equal to v.  Checked   *)
(* on an engine without helpers.  The code violates it.                    *)
(***************************************************************************)
C1_RoundTrip ==
    (DecodedEncoded /\ helpers = <<>> /\ Supported(thing))
        => (out.ok /\ out.ret = thing)

(***************************************************************************)
(* C2.  fromBuffer returns a result that carries both the reconstructed    *)
(* value (data) and the number of bytes consumed (bufferBytes).  The code  *)
(* returns the bare value.                                                 *)
(***************************************************************************)
C2_ResultCarriesOffset ==
    (op = "fromBuffer" /\ out.ok)
        => /\ {"data", "bufferBytes"} \subseteq DOMAIN out.ret
           /\ out.ret.bufferBytes = out.off - offset

(***************************************************************************)
(* C3, as claimed.  For every encodable value v and all trailing bytes t,  *)
(* decoding toBuffer(v) followed by t returns what decoding toBuffer(v)    *)
(* returns, and the cursor ends exactly at the end of toBuffer(v).         *)
(***************************************************************************)
C3_SelfDelimiting_Claimed ==
    DecodedEncoded
        => /\ out.ok
           /\ out.off = offset + Len(enc.buf)
           /\ out.ret = fromBuffer(helpers, enc.buf, 0).ret

(***************************************************************************)
(* C3, amended.  The same, for every encodable value whose encoding holds  *)
(* no helper payload that a different helper reads back: each helper that  *)
(* wrote is the first registered under its name.                           *)
(***************************************************************************)
C3_SelfDelimiting ==
    (DecodedEncoded /\ NotShadowed(helpers, enc.used))
        => /\ out.ok
           /\ out.off = offset + Len(enc.buf)
           /\ out.ret = fromBuffer(helpers, enc.buf, 0).ret

C3_Witness ==
    /\ DecodedEncoded
    /\ thing.t = "array" /\ thing.len = 2
    /\ offset = 2
    /\ Len(buff) = offset + Len(enc.buf) + 2
    /\ out.ok /\ out.off = offset + Len(enc.buf)

(***************************************************************************)
(* C4.  A list or keyed object with a member whose value is undefined is   *)
(* encoded without error and without a pair for that member; only a bare   *)
(* top-level undefined is rejected.  The code throws for the member too.   *)
(***************************************************************************)
C4_UndefinedMemberOmitted ==
    (op = "toBuffer" /\ helpers = <<>>)
        => /\ thing = Undefined => ~out.ok
           /\ (HasUndefinedMember(thing) /\ Plain(helpers, WithoutUndefined(thing)))
                 => /\ out.ok
                    /\ out.buf = toBuffer(helpers, WithoutUndefined(thing)).buf

C6_HelpersFirst ==
    (op = "toBuffer" /\ Matching(helpers, thing) # {}
        /\ thing.t \in {"buffer", "date", "regexp", "array", "object", "string",
                        "number", "boolean"})
        => LET h == helpers[FirstMatching(helpers, thing)]
               w == HelperToBufferFn(h.kind, thing,
                        BufferWriter_string(
                            BufferWriter_size(
                                BufferWriter_uint8(
                                    BufferWriter_uint8(NewWriter, 0), 90),
                                Len(h.name)),
                            h.name))
           IN  w.ok => (out.ok /\ out.buf = BufferWriter_toBuffer(w))

(***************************************************************************)
(* C7, as claimed.  For a registry built by any sequence of register calls *)
(* and a value that a helper encoded, fromBuffer(toBuffer(v)) invokes the  *)
(* decode function of that same helper and returns an instance equal to v. *)
(* Stated for the helpers whose two functions are inverses (Klass, Byte).  *)
(***************************************************************************)
EncodedByHelper ==
    /\ DecodedEncoded
    /\ Matching(helpers, thing) # {}
    /\ enc.used = <<FirstMatching(helpers, thing)>>
    /\ helpers[enc.used[1]].kind \in {"Klass", "Byte"}

C7_ExtensionRoundTrip_Claimed ==
    EncodedByHelper => (out.ok /\ out.used = enc.used /\ out.ret = thing)

(***************************************************************************)
(* C7, amended.  The same, provided no helper registered before the one    *)
(* that encoded v has the same name.                                       *)
(***************************************************************************)
C7_ExtensionRoundTrip ==
    (EncodedByHelper /\ NotShadowed(helpers, enc.used))
        => (out.ok /\ out.used = enc.used /\ out.ret = thing)

C7_Witness ==
    /\ EncodedByHelper
    /\ Len(helpers) = 2 /\ enc.used = <<2>>
    /\ helpers[1].name # helpers[2].name
    /\ out.ok /\ out.ret = thing

(***************************************************************************)
(* C8.  Decoding a value tagged 0x5A whose size-prefixed name is the name  *)
(* of no registered helper aborts with the error that reports that name:   *)
(* no decode function runs for it and no value is returned.                *)
(***************************************************************************)
\* the name read after a 0x5A tag that follows the version byte
NameRead ==
    LET s == BufferReader_size(buff, NewReader(offset + 2))
    IN  BufferReader_string(buff, s, s.val)

HelperTagged ==
    /\ op = "fromBuffer" /\ VersionOk
    /\ offset + 1 < Len(buff) /\ buff[offset + 2] = 90
    /\ NameRead.ok

NotDefined == "Serialized data uses custom helper but it is not defined"

C8_HelperNotFound ==
    /\ (HelperTagged /\ \A i \in 1..Len(helpers) : helpers[i].name # NameRead.val)
          => /\ ~out.ok /\ out.ret = Undefined
             /\ out.err = NotDefined /\ out.detail = NameRead.val
             /\ out.used = <<>>
    /\ (op = "fromBuffer" /\ out.err = NotDefined)
          => /\ ~out.ok /\ out.ret = Undefined
             /\ \A i \in 1..Len(helpers) : helpers[i].name # out.detail

C8_Witness ==
    /\ HelperTagged
    /\ helpers # <<>>
    /\ out.err = NotDefined /\ out.detail = <<120>>

(***************************************************************************)
(* C9.  fromBuffer(buff, offset) fails with the invalid-version error      *)
(* whenever the byte at offset is not 0x00, also when there is no byte     *)
(* there, before any tag byte is read; when that byte is 0x00 the tag is   *)
(* the byte at offset + 1.                                                 *)
(***************************************************************************)
ValueTags ==
    {43, 45, 65, 66, 68, 73, 79, 80, 82, 84, 90, 97, 100, 102, 105, 110, 112,
     115, 116}

C9_VersionCheck ==
    op = "fromBuffer"
        => /\ ~VersionOk
                 => /\ ~out.ok /\ out.err = "Invalid version identifier"
                    /\ out.off = offset /\ out.used = <<>>
           /\ VersionOk => out.err # "Invalid version identifier"
           /\ (VersionOk /\ offset + 1 >= Len(buff))
                 => (~out.ok /\ out.err = "RangeError" /\ out.off = offset + 1)
           /\ (VersionOk /\ offset + 1 < Len(buff))
                 => LET tag == buff[offset + 2]
                    IN  /\ tag \notin ValueTags
                              => /\ ~out.ok /\ out.detail = <<tag>>
                                 /\ out.err = "Unable to deserialize string, unknown code"
                        /\ tag = 110
                              => (out.ok /\ out.ret = Null /\ out.off = offset + 2)
                        /\ tag = 116
                              => (out.ok /\ out.ret = Bool(TRUE) /\ out.off = offset + 2)

C9_Witness ==
    /\ op = "fromBuffer"
    /\ offset = 1 /\ Len(buff) > 1 /\ buff[1] = 0 /\ buff[2] # 0
    /\ out.err = "Invalid version identifier"

(***************************************************************************)
(* C10.  Writer.size(n) fails exactly when n < 0 or n >= 2^29, succeeds    *)
(* for every n from 0 up to 0x1FFFFFFF, and a failing call appends         *)
(* nothing.  The code also rejects 0x1FFFFFFF.                             *)
(***************************************************************************)
C10_SizeRange ==
    wcall.op = "size"
        => /\ wcall.ok <=> (0 <= wcall.n /\ wcall.n < 536870912)
           /\ ~wcall.ok => bufferList = wcall.before

(***************************************************************************)
(* C11.  Size width table: size(n) writes the byte n for 0 <= n <= 0x7E,   *)
(* the two bytes of n + 0x8000 for 0x7F <= n <= 0x3FFF and the four bytes  *)
(* of n + 0xC0000000 for 0x4000 <= n <= 0x1FFFFFFF.  The code writes four  *)
(* bytes for 0x3FFF and rejects 0x1FFFFFFF.                                *)
(***************************************************************************)
\* the bytes the table gives for n
TableSizeBytes(n) ==
    IF n <= 126 THEN <<n>>
    ELSE IF n <= 16383 THEN <<128 + (n \div 256), n % 256>>
    ELSE <<192 + (n \div 16777216), (n \div 65536) % 256, (n \div 256) % 256,
           n % 256>>

C11_SizeWidths ==
    (wcall.op = "size" /\ 0 <= wcall.n /\ wcall.n <= 536870911)
        => /\ wcall.ok
           /\ bufferList = Append(wcall.before, TableSizeBytes(wcall.n))

(***************************************************************************)
(* C12.  Size round trip: for every n that size(n) accepts, a reader's     *)
(* size() over the written bytes returns n and advances by the number of   *)
(* bytes written, 1, 2 or 4 as the high bits of the first byte say; the    *)
(* values 0, 0x7E, 0x7F, 0x3FFF, 0x4000 and 0x1FFFFFFE are accepted.       *)
(***************************************************************************)
C12_SizeRoundTrip ==
    wcall.op = "size"
        => /\ wcall.n \in {0, 126, 127, 16383, 16384, 536870910} => wcall.ok
           /\ wcall.ok =>
                 LET buf   == Concat(bufferList)
                     start == Len(Concat(wcall.before))
                     r     == BufferReader_size(buf, NewReader(start))
                     first == buf[start + 1]
                 IN  /\ r.ok /\ r.val = wcall.n
                     /\ r.off = Len(buf)
                     /\ r.off - start = IF first < 128 THEN 1
                                        ELSE IF first < 192 THEN 2 ELSE 4
                     /\ r.off - start = Len(bufferList[Len(bufferList)])

C12_Witness ==
    /\ wcall.op = "size" /\ wcall.ok /\ wcall.n = 16383
    /\ Len(wcall.before) = 1
    /\ Len(bufferList[2]) = 4

(***************************************************************************)
(* C19.  Writer finalization: each append adds its bytes as one segment (1,*)
(* 2, 4 and 8 big-endian bytes for uint8, uint16, uint32 and double, the   *)
(* bytes given for buffer and string, the size encoding for size), and     *)
(* toBuffer() returns the segments concatenated in call order, leaving     *)
(* them as they were.                                                      *)
(***************************************************************************)
RECURSIVE TotalLen(_)
TotalLen(segs) == IF segs = <<>> THEN 0 ELSE Len(Head(segs)) + TotalLen(Tail(segs))

\* the bytes the append recorded in wcall is to add
AppendedBytes ==
    CASE wcall.op = "uint8"  -> <<wcall.n>>
      [] wcall.op = "uint16" -> <<wcall.n \div 256, wcall.n % 256>>
      [] wcall.op = "uint32" ->
            <<wcall.arg.hi \div 256, wcall.arg.hi % 256,
              wcall.arg.lo \div 256, wcall.arg.lo % 256>>
      [] wcall.op = "double" -> wcall.arg
      [] wcall.op = "buffer" -> wcall.arg
      [] wcall.op = "string" -> [i \in 1..wcall.n |-> wcall.arg[i] % 256]
      [] OTHER -> bufferList[Len(bufferList)]

IsAppend == wcall.op \in {"uint8", "uint16", "uint32", "double", "buffer",
                         "string", "size"}

C19_Finalization ==
    /\ (IsAppend /\ wcall.ok)
          => /\ bufferList = Append(wcall.before, AppendedBytes)
             /\ wcall.op = "uint8" => Len(AppendedBytes) = 1
             /\ wcall.op = "uint16" => Len(AppendedBytes) = 2
             /\ wcall.op = "uint32" => Len(AppendedBytes) = 4
             /\ wcall.op = "double" => Len(AppendedBytes) = 8
             /\ wcall.op = "size" => Len(AppendedBytes) \in {1, 2, 4}
    /\ (IsAppend /\ ~wcall.ok) => bufferList = wcall.before
    /\ wcall.op = "toBuffer"
          => /\ bufferList = wcall.before
             /\ Len(wcall.ret) = TotalLen(bufferList)
             /\ \A k \in 1..Len(bufferList) :
                   SubSeq(wcall.ret,
                          TotalLen(SubSeq(bufferList, 1, k - 1)) + 1,
                          TotalLen(SubSeq(bufferList, 1, k))) = bufferList[k]

C19_Witness ==
    /\ wcall.op = "toBuffer"
    /\ Len(bufferList) = 2
    /\ bufferList[1] = <<35, 69>> /\ Len(bufferList[2]) = 8
    /\ Len(wcall.ret) = 10

(***************************************************************************)
(* C20.  Reader cursor: no reader operation moves the offset back; peek()  *)
(* leaves it where it was, skip() adds 1, uint8 / uint16 / uint32 / double *)
(* add 1 / 2 / 4 / 8, buffer(n) and string(n) add n, size() adds the width *)
(* it decoded (1, 2 or 4); peek() fails with the end-of-stream error when  *)
(* the offset is at or past the end of the buffer.                         *)
(***************************************************************************)
Moved == readOffset - rcall.before

C20_ReaderCursor ==
    rcall.op # "new"
        => /\ Moved >= 0
           /\ ~rcall.ok => Moved = 0
           /\ rcall.op = "peek"
                 => /\ Moved = 0
                    /\ rcall.ok <=> rcall.before < Len(readBuffer)
                    /\ rcall.ok => rcall.val = readBuffer[rcall.before + 1]
                    /\ ~rcall.ok => rcall.err = "Unexpected end of stream"
           /\ rcall.op = "skip" => Moved = 1
           /\ (rcall.op = "uint8" /\ rcall.ok) => Moved = 1
           /\ (rcall.op = "uint16" /\ rcall.ok) => Moved = 2
           /\ (rcall.op = "uint32" /\ rcall.ok) => Moved = 4
           /\ (rcall.op = "double" /\ rcall.ok) => Moved = 8
           /\ rcall.op \in {"buffer", "string"} => Moved = rcall.n
           /\ (rcall.op = "size" /\ rcall.ok)
                 => LET first == readBuffer[rcall.before + 1]
                    IN  Moved = IF first < 128 THEN 1
                                ELSE IF first < 192 THEN 2 ELSE 4

C20_Witness ==
    /\ rcall.op = "peek" /\ ~rcall.ok
    /\ rcall.before > Len(readBuffer)
    /\ readOffset = rcall.before

(***************************************************************************)
(* C14.  Number width selection: an integer n with |n| <= 0xFFFFFFFF is    *)
(* written with the tag of the smallest of the 8-, 16- and 32-bit widths   *)
(* that holds |n| ('+', 'p', 'P' for n >= 0, '-', 'i', 'I' for n < 0) and  *)
(* |n| big-endian in that width, and decodes to n; any other number is     *)
(* written with tag 'd' and 8 bytes.                                       *)
(***************************************************************************)
FitsUint32(v) == v.integral /\ v.hi <= 65535

\* tag and payload the rule gives for the number v
NumberBytes(v) ==
    LET negative == v.neg /\ (v.hi > 0 \/ v.lo > 0)
    IN  IF FitsUint32(v) /\ v.hi = 0 /\ v.lo <= 255
        THEN <<IF negative THEN 45 ELSE 43, v.lo>>
        ELSE IF FitsUint32(v) /\ v.hi = 0
        THEN <<IF negative THEN 105 ELSE 112, v.lo \div 256, v.lo % 256>>
        ELSE IF FitsUint32(v)
        THEN <<IF negative THEN 73 ELSE 80, v.hi \div 256, v.hi % 256,
               v.lo \div 256, v.lo % 256>>
        ELSE <<100>> \o v.ieee

C14_NumberWidths ==
    /\ (op = "toBuffer" /\ thing.t = "number")
          => /\ out.ok /\ out.buf = <<0>> \o NumberBytes(thing)
             /\ ~FitsUint32(thing) => Len(out.buf) = 10
    /\ (DecodedEncoded /\ thing.t = "number" /\ FitsUint32(thing))
          => (out.ok /\ out.ret = thing)

C14_Witness ==
    /\ DecodedEncoded
    /\ thing = Num(TRUE, 0, 256)
    /\ enc.buf = <<0, 105, 1, 0>>
    /\ out.ret = thing

(***************************************************************************)
(* C13.  Dense/sparse classification: a list is written as 0x61, its       *)
(* elements in index order, 0x21 exactly when it has as many own           *)
(* properties as its length and no element in range is undefined;          *)
(* otherwise as 0x41, one (key, value) pair per own property, 0x21.  The   *)
(* code throws for the list that is not dense because an element is        *)
(* undefined.                                                              *)
(***************************************************************************)
\* the bytes encode writes for one value, and for one key
ValueBytes(hs, v) == Concat(toBufferInternal(hs, v, NewWriter).bl)

KeyBytes(hs, k) == Concat(toBufferInternalKey(hs, k, NewWriter).bl)

RECURSIVE ElementBytes(_, _, _)
ElementBytes(hs, v, i) ==
    IF i >= v.len THEN <<>>
    ELSE ValueBytes(hs, GetProp(v.entries, IndexKey(i)))
             \o ElementBytes(hs, v, i + 1)

RECURSIVE PairBytes(_, _, _)
PairBytes(hs, entries, i) ==
    IF i > Len(entries) THEN <<>>
    ELSE KeyBytes(hs, entries[i].k) \o ValueBytes(hs, entries[i].v)
             \o PairBytes(hs, entries, i + 1)

DenseByRule(v) ==
    /\ Len(v.entries) = v.len
    /\ \A i \in 0..(v.len - 1) : GetProp(v.entries, IndexKey(i)) # Undefined

\* every member of v other than an undefined one can be encoded
MembersEncodable(hs, v) ==
    \A i \in 1..Len(v.entries) :
        \/ v.entries[i].v = Undefined
        \/ toBufferInternal(hs, v.entries[i].v, NewWriter).ok

C13_DenseSparse ==
    (op = "toBuffer" /\ thing.t = "array" /\ MembersEncodable(helpers, thing))
        => /\ out.ok
           /\ out.buf = IF DenseByRule(thing)
                        THEN <<0, 97>> \o ElementBytes(helpers, thing, 0) \o <<33>>
                        ELSE <<0, 65>> \o PairBytes(helpers, thing.entries, 1)
                                 \o <<33>>

(***************************************************************************)
(* C15.  Timestamp encoding: a timestamp of t milliseconds, after or       *)
(* before the epoch, is written as 'T' and floor(t / 1000) in 32 bits when *)
(* t has no sub-second remainder, else as 'D', the seconds and the         *)
(* remainder in 16 bits; decoding gives back t.  The code cannot encode a  *)
(* timestamp before the epoch.                                             *)
(***************************************************************************)
C15_Timestamp ==
    /\ (op = "toBuffer" /\ thing.t = "date" /\ helpers = <<>>)
          => /\ out.ok
             /\ out.buf[2] = IF thing.ms = 0 THEN 84 ELSE 68
             /\ Len(out.buf) = IF thing.ms = 0 THEN 6 ELSE 8
             /\ ~thing.neg
                   => /\ SubSeq(out.buf, 3, 6) =
                            <<thing.shi \div 256, thing.shi % 256,
                              thing.slo \div 256, thing.slo % 256>>
                      /\ thing.ms # 0
                            => SubSeq(out.buf, 7, 8) =
                                  <<thing.ms \div 256, thing.ms % 256>>
    /\ (DecodedEncoded /\ thing.t = "date" /\ enc.used = <<>>)
          => (out.ok /\ out.ret = thing)

(***************************************************************************)
(* C16.  Unrecognized tag: a byte read where a value starts that is none   *)
(* of the 19 value tags aborts the decode with the error that reports the  *)
(* byte; the terminator 0x21 is no value tag, at top level, where a key is *)
(* expected or where a member value is expected.                           *)
(***************************************************************************)
UnknownCodeError(b) ==
    /\ ~out.ok /\ out.ret = Undefined
    /\ out.err = "Unable to deserialize string, unknown code"
    /\ out.detail = <<b>>

\* buff, counted from the version byte: Following(1) is the top-level tag
Following(i) == buff[offset + 1 + i]

Follows(i) == offset + 1 + i <= Len(buff)

C16_UnknownTag ==
    (op = "fromBuffer" /\ VersionOk)
        => /\ (Follows(1) /\ Following(1) \notin ValueTags)
                 => UnknownCodeError(Following(1))
           /\ (Follows(2) /\ Following(1) \in {65, 79, 97}
                 /\ Following(2) \notin ValueTags \cup {33})
                 => UnknownCodeError(Following(2))
           /\ (Follows(4) /\ Following(1) \in {65, 79} /\ Following(2) = 43
                 /\ Following(4) \notin ValueTags)
                 => UnknownCodeError(Following(4))
           /\ out.err = "Unable to deserialize string, unknown code"
                 => /\ ~out.ok /\ Len(out.detail) = 1
                    /\ out.detail[1] \notin ValueTags
                    /\ out.off > offset + 1 /\ out.off <= Len(buff)
                    /\ buff[out.off] = out.detail[1]

C16_Witness ==
    /\ op = "fromBuffer" /\ VersionOk
    /\ Follows(4) /\ Following(1) = 65 /\ Following(4) = 33
    /\ UnknownCodeError(33)

(***************************************************************************)
(* C17.  End of stream: decoding a buffer that ends before the value is    *)
(* complete aborts with an error, wherever the cut falls; no value built   *)
(* from fewer bytes than the encoding declares is returned.  The code      *)
(* returns the shortened text or byte-blob.                                *)
(***************************************************************************)
\* fromBuffer was last called on a proper prefix of the record of thing
DecodedTruncated ==
    /\ op = "fromBuffer" /\ enc.ok /\ offset = 0
    /\ Len(buff) < Len(enc.buf)
    /\ buff = SubSeq(enc.buf, 1, Len(buff))

C17_EndOfStream == DecodedTruncated => ~out.ok

(***************************************************************************)
(* C18.  register fails with an error and leaves the registry as it was    *)
(* when an argument is malformed (here: the three functions are not        *)
(* functions); with well-formed arguments it appends exactly one entry at  *)
(* the end.  The code appends whatever it is given.                        *)
(***************************************************************************)
WellFormed(h) == h.kind # "None"

C18_RegisterValidates ==
    [][op' = "register"
          => \/ helpers' = helpers /\ ~out'.ok
             \/ /\ out'.ok
                /\ Len(helpers') = Len(helpers) + 1
                /\ SubSeq(helpers', 1, Len(helpers)) = helpers
                /\ WellFormed(helpers'[Len(helpers')])]_vars

(***************************************************************************)
(* C21.  Smallest size width: for every n that size(n) accepts, the bytes  *)
(* written are as few as the narrowest of the three forms (1 byte with 7   *)
(* value bits, 2 bytes with 14, 4 bytes with 29) whose value bits hold n.  *)
(* The code writes 0x7F in two bytes and 0x3FFF in four.                   *)
(***************************************************************************)
\* the width of the narrowest form whose value bits hold n
SmallestWidth(n) ==
    IF n < 128 THEN 1 ELSE IF n < 16384 THEN 2 ELSE 4

C21_SmallestSizeWidth ==
    (wcall.op = "size" /\ wcall.ok)
        => Len(bufferList[Len(bufferList)]) = SmallestWidth(wcall.n)

(***************************************************************************)
(* C22.  Key normalization: a member key of a keyed object or sparse list  *)
(* whose text is a canonical non-negative integer literal ("0", or digits  *)
(* with no leading zero) is written as a number, by number width           *)
(* selection; every other key ("01", "-1", "1.5", the empty text) is       *)
(* written as a text: 's', size, bytes.                                    *)
(***************************************************************************)
CanonicalLiteral(k) ==
    \/ k = <<48>>
    \/ /\ Len(k) >= 1 /\ k[1] \in 49..57
       /\ \A i \in 1..Len(k) : k[i] \in 48..57

\* the bytes the rule gives for the key k, a text shorter than 127
RuleKeyBytes(k) ==
    IF CanonicalLiteral(k)
    THEN NumberBytes(KeyToNumber(k))
    ELSE <<115, Len(k)>> \o k

RECURSIVE RulePairBytes(_, _, _)
RulePairBytes(hs, entries, i) ==
    IF i > Len(entries) THEN <<>>
    ELSE RuleKeyBytes(entries[i].k) \o ValueBytes(hs, entries[i].v)
             \o RulePairBytes(hs, entries, i + 1)

\* thing is written as (key, value) pairs
WrittenAsPairs ==
    /\ op = "toBuffer" /\ out.ok
    /\ \/ thing.t = "array" /\ ~DenseByRule(thing)
       \/ thing.t = "object" /\ Matching(helpers, thing) = {}

C22_KeyNormalization ==
    WrittenAsPairs
        => out.buf = <<0, IF thing.t = "array" THEN 65 ELSE 79>>
                         \o RulePairBytes(helpers, thing.entries, 1) \o <<33>>

C22_Witness ==
    /\ WrittenAsPairs
    /\ thing.t = "object" /\ Len(thing.entries) = 8
    /\ thing.entries[3].k = <<55, 48, 48, 48, 48>>
    /\ thing.entries[5].k = <<48, 49>>
    /\ SubSeq(out.buf, 3, 15) =
          <<43, 0, 110, 112, 1, 44, 110, 80, 0, 1, 17, 112, 110>>
    /\ SubSeq(out.buf, 16, 29) =
          <<100, 65, 240, 0, 0, 0, 0, 0, 0, 110, 115, 2, 48, 49>>

(***************************************************************************)
(* C23.  Terminator nesting: in the bytes encode produces, every container *)
(* tag (0x61, 0x41, 0x4F) is closed by exactly one 0x21, written after all *)
(* of the container's members, nested containers and their terminators     *)
(* included, are complete; the decoder takes a 0x21 for a terminator only  *)
(* where the next member of the innermost open container would start, so a *)
(* 0x21 inside a payload (the number 33, the text "!") closes nothing.     *)
(***************************************************************************)
\* encode writes v with a container tag: a list, or a keyed object that no
\* registered predicate takes over
WrittenAsContainer(hs, v) ==
    \/ v.t = "array"
    \/ v.t = "object" /\ Matching(hs, v) = {}

ContainerTag(v) ==
    IF v.t = "object" THEN 79 ELSE IF DenseByRule(v) THEN 97 ELSE 65

\* the bytes of the members of v, each member written on its own
MemberBytes(hs, v) ==
    IF v.t = "array" /\ DenseByRule(v)
    THEN ElementBytes(hs, v, 0)
    ELSE PairBytes(hs, v.entries, 1)

\* at every depth of v: tag, the complete members, one terminator
RECURSIVE Closed(_, _)
Closed(hs, v) ==
    WrittenAsContainer(hs, v)
        => /\ ValueBytes(hs, v) = <<ContainerTag(v)>> \o MemberBytes(hs, v) \o <<33>>
           /\ \A i \in 1..Len(v.entries) : Closed(hs, v.entries[i].v)

\* d has the containers of v, with the members of v, at every depth
RECURSIVE SameNesting(_, _, _)
SameNesting(hs, v, d) ==
    IF WrittenAsContainer(hs, v)
    THEN /\ d.t = v.t
         /\ Len(d.entries) = Len(v.entries)
         /\ \A i \in 1..Len(v.entries) :
               /\ d.entries[i].k = v.entries[i].k
               /\ SameNesting(hs, v.entries[i].v, d.entries[i].v)
    ELSE d.t \in {"array", "object"} => v.t = "object"

\* some member of v, at some depth, has a 0x21 in its payload
RECURSIVE HoldsBang(_)
HoldsBang(v) ==
    \/ v \in {Num(FALSE, 0, 33), Str(<<33>>), Buf(<<33>>), Instance("Byte", 33)}
    \/ v.t = "string" /\ Len(v.s) = 33
    \/ /\ IsContainer(v)
       /\ \E i \in 1..Len(v.entries) :
             v.entries[i].k \in {<<33>>, <<51, 51>>} \/ HoldsBang(v.entries[i].v)

C23_TerminatorNesting ==
    /\ (op = "toBuffer" /\ out.ok)
          => /\ Closed(helpers, thing)
             /\ out.buf = <<0>> \o ValueBytes(helpers, thing)
    /\ (DecodedEncoded /\ WrittenAsContainer(helpers, thing)
           /\ NotShadowed(helpers, enc.used))
          => /\ out.ok
             /\ out.off = offset + Len(enc.buf)
             /\ buff[out.off] = 33
             /\ SameNesting(helpers, thing, out.ret)

C23_Witness ==
    /\ DecodedEncoded /\ out.ok
    /\ thing.t = "array" /\ thing.len = 2
    /\ thing.entries[1].v.t = "array"
    /\ HoldsBang(thing.entries[1].v) /\ HoldsBang(thing.entries[2].v)
    /\ Len(buff) > offset + Len(enc.buf)
    /\ SameNesting(helpers, thing, out.ret)

(***************************************************************************)
(* C24.  Sparse list reconstruction: for every list that is encoded in     *)
(* sparse form, the decoded list has the declared length of the original,  *)
(* the same own properties with equal values, and absent slots at exactly  *)
(* the indices that were absent in the original, whether those gaps lie    *)
(* before, between or after the present elements.  The code loses the gaps *)
(* that lie after the last present element.                                *)
(***************************************************************************)
\* the indices below the length of the list v at which v has no element
AbsentSlots(v) == {i \in 0..(v.len - 1) : ~HasProp(v.entries, IndexKey(i))}

\* fromBuffer was last called on the sparse record of the list thing
DecodedSparse ==
    /\ DecodedEncoded
    /\ thing.t = "array"
    /\ enc.buf[2] = 65

C24_SparseReconstruction ==
    DecodedSparse
        => /\ out.ok /\ out.ret.t = "array"
           /\ out.ret.len = thing.len
           /\ out.ret.entries = thing.entries
           /\ AbsentSlots(out.ret) = AbsentSlots(thing)

(***************************************************************************)
(* C25.  Registry invariant: across any sequence of register, encode and   *)
(* decode calls on one engine, successful or failed, the helper list       *)
(* changes only by register appending one entry at the end; the entries it *)
(* had are never removed, reordered or replaced, and encode and decode     *)
(* leave the list as it was.                                               *)
(***************************************************************************)
C25_RegistryInvariant ==
    [][/\ op' = "register"
             => /\ Len(helpers') = Len(helpers) + 1
                /\ \A i \in 1..Len(helpers) : helpers'[i] = helpers[i]
       /\ op' \in {"toBuffer", "fromBuffer"} => helpers' = helpers
       /\ helpers' # helpers => op' = "register"]_vars

C25_Witness ==
    /\ Len(helpers) = 2 /\ helpers[1] # helpers[2]
    /\ op = "fromBuffer" /\ ~out.ok
    /\ enc.ok /\ enc.used # <<>>

(***************************************************************************)
(* C26.  Decode termination: for every finite buffer and start offset, and *)
(* helper decode functions that return, fromBuffer ends by returning a     *)
(* value or raising an error: every pass through a container-reading loop  *)
(* moves the cursor forward by at least one byte or raises, and a cursor   *)
(* at or past the end of the buffer raises at the next peek.               *)
(***************************************************************************)
DecodeEnded == decode.status \in {"returned", "raised"}

\* the call followed step by step ends as fromBuffer does
DecodeAgrees ==
    /\ (op = "fromBuffer" /\ decode.status = "returned")
          => (out.ok /\ out.ret = decode.ret.val /\ out.off = decode.pos)
    /\ (op = "fromBuffer" /\ decode.status = "raised")
          => /\ ~out.ok /\ out.off = decode.pos
             /\ out.err = decode.ret.err /\ out.detail = decode.ret.detail

C26_DecodeTermination ==
    /\ []DecodeAgrees
    /\ [][decode.status = "running"
             => /\ decode'.status = "raised" \/ decode'.pos > decode.pos
                /\ decode.pos >= Len(buff) => decode'.status = "raised"
                /\ decode'.status = "raised" => decode'.pos >= decode.pos]_vars
    /\ (decode.status = "running") ~> DecodeEnded

C26_Witness ==
    /\ decode.status = "raised"
    /\ decode.ret.err = "Unexpected end of stream"
    /\ decode.pos > Len(buff)
    /\ buff = <<0, 97, 115, 5, 97>>

====
